---- MODULE Spec2Model ----
(***************************************************************************)
(* Ericsson MINI-LINK driver (netmiko/ericsson/ericsson_mltn.py).          *)
(*                                                                         *)
(* Text is a sequence of one-character strings, so that the substring      *)
(* tests of the login loop and of the mode probe are computed, not         *)
(* assumed.  An optional value (Python None or a value) is a sequence of   *)
(* length 0 or 1.  Time is counted in ticks of half a second, the          *)
(* granularity of the two sleeps of the login loop.                        *)
(***************************************************************************)
EXTENDS Integers, Sequences, FiniteSets, TLC

VARIABLES
    variant,          \* device generation: class EricssonMinilink63SSH / 66SSH
    supplied,         \* how the caller passed the username to __init__
    given,            \* the username the caller passed ("" when absent)
    username,         \* BaseConnection.username: the transport-level username
    real_username,    \* self._real_username
    password,         \* self.password (optional text)
    auth_timeout,     \* self.auth_timeout (optional number of seconds)
    configured,       \* the auth_timeout the session was constructed with
    use_keys,         \* self.use_keys
    system_host_keys, \* self.system_host_keys
    alt_host_keys,    \* self.alt_host_keys
    session_log_fin,  \* self._session_log_fin
    chanClosed,       \* the channel has been closed
    devPrompt,        \* the prompt the device currently shows
    emitsLeft,        \* non-empty chunks the device may still emit in this login
    silent,           \* consecutive empty reads since the device last emitted
    pc,               \* "idle", or "login" while the login loop is running
    elapsed,          \* ticks since `start` (time.time() - start)
    output,           \* the local `output` of special_login_handler
    log,              \* channel-level events of the current call, in order
    reads,            \* what each read_channel() of the current login returned
    nreads,           \* read_channel / read_until_pattern calls of the current call
    result            \* how the most recent call ended, and what it returned

vars == <<variant, supplied, given, username, real_username, password,
          auth_timeout, configured, use_keys, system_host_keys, alt_host_keys,
          session_log_fin, chanClosed, devPrompt,
          emitsLeft, silent, pc, elapsed, output, log, reads, nreads, result>>

cfgVars == <<variant, supplied, given, username, real_username, password,
             configured, use_keys, system_host_keys, alt_host_keys>>

----------------------------------------------------------------------------
(* Bounds of the model *)

\* non-empty chunks the device emits during one login attempt
MaxEmits == 2

\* the device answers within this many empty reads, or stays silent
MaxDelay == 2

\* largest auth_timeout (seconds) a caller configures explicitly
MaxAuthTimeout == 2

----------------------------------------------------------------------------
(* Program constants *)

\* self.auth_timeout = 20
DefaultAuthTimeout == 20

\* ticks per second: the loop sleeps 0.5 s and 1 s
TicksPerSecond == 2

\* time.sleep(0.5), in ticks
SleepPoll == 1

\* time.sleep(1), in ticks
SleepRetry == 2

\* BaseConnection.RETURN
RETURN == <<"\n">>

None == <<>>

Some(x) == <<x>>

\* the fixed ssh username
CLI == <<"c", "l", "i">>

T_login == <<"l", "o", "g", "i", "n", ":">>
T_User == <<"U", "s", "e", "r", ":">>
T_password == <<"p", "a", "s", "s", "w", "o", "r", "d", ":">>
T_Password == <<"P", "a", "s", "s", "w", "o", "r", "d", ":">>
T_busy == <<"b", "u", "s", "y">>

----------------------------------------------------------------------------
(* Text helpers *)

\* Python `pat in text`
Contains(text, pat) ==
    \E i \in 0..(Len(text) - Len(pat)) :
        \A j \in 1..Len(pat) : text[i + j] = pat[j]

\* Python truthiness of an optional number: None and 0 are false
Falsy(opt) == opt = None \/ opt[1] = 0

\* the last element of a non-empty sequence
Last(s) == s[Len(s)]

----------------------------------------------------------------------------
(* Values the caller and the device choose from *)

Admin == <<"a", "d", "m">>
Secret == <<"s", "3", "c">>

\* the head of a username prompt that arrives split across two reads
SplitHead == <<"U", "s">>

\* device output that matches none of the checks of the login loop: a
\* banner, and the first characters of "User:" cut off by the read
Noise == <<"W", "e", "l", "c", "o", "m", "e", "\n">> \o SplitHead

Variants == {"ML63xx", "ML66xx"}

\* username passed as a keyword, positionally, or not at all
Constructions ==
    {[how |-> "kwarg", u |-> Admin], [how |-> "kwarg", u |-> <<>>],
     [how |-> "positional", u |-> Admin], [how |-> "absent", u |-> <<>>]}

Passwords == {None, Some(Secret)}

\* auth_timeout given explicitly, and left unset (None) or zero
ExplicitTimeouts == {Some(n) : n \in 1..MaxAuthTimeout}

UnsetTimeouts == {None, Some(0)}

\* use_keys, system_host_keys, alt_host_keys as BaseConnection defaults them
DefaultKeyFlags == [use_keys |-> FALSE, system_host_keys |-> FALSE,
                    alt_host_keys |-> FALSE]

KeyFlags == [use_keys : BOOLEAN, system_host_keys : BOOLEAN,
             alt_host_keys : BOOLEAN]

\* the sessions constructed: every construction with an explicit timeout,
\* one construction with the timeout left unset and one with it zero, and
\* one construction with every setting of the host-key flags
Sessions ==
    [variant : Variants, con : Constructions, password : Passwords,
     auth_timeout : ExplicitTimeouts, keys : {DefaultKeyFlags}]
    \cup
    {[variant |-> IF t = None THEN "ML63xx" ELSE "ML66xx",
      con |-> [how |-> "kwarg", u |-> Admin], password |-> Some(Secret),
      auth_timeout |-> t, keys |-> DefaultKeyFlags] : t \in UnsetTimeouts}
    \cup
    [variant : {"ML66xx"}, con : {[how |-> "kwarg", u |-> Admin]},
     password : {Some(Secret)}, auth_timeout : {Some(1)}, keys : KeyFlags]

\* the rest of a split "User:", with a password prompt and a busy notice behind it
SplitTail == (<<"e", "r", ":">> \o T_password) \o T_busy

\* what one read_channel() may return when the device has sent something;
\* a split "User:" arrives as Noise (ending in SplitHead), then SplitTail
Chunks == {T_login, T_User, T_password, T_Password, T_busy, Noise, SplitTail}

P_oper == <<"h", "#">>
P_conf == <<"h", "(", "c", ")", "#">>

----------------------------------------------------------------------------
(* Construction: EricssonMinilinkBase.__init__ *)

\* BaseConnection.__init__ keeps the username it is handed: the keyword if
\* there is one, else the positional argument, else its default ""
BaseInitUsername(how, u, kw) ==
    IF how = "kwarg" THEN kw ELSE IF how = "positional" THEN u ELSE <<>>

\* self._real_username after __init__
InitRealUsername(how, u) == IF how = "kwarg" THEN u ELSE <<>>

\* kwargs["username"] as handed to super().__init__
InitKwargUsername(how, u) == IF how = "kwarg" THEN CLI ELSE u

Init ==
    /\ \E s \in Sessions :
          /\ variant = s.variant
          /\ supplied = s.con.how
          /\ given = s.con.u
          /\ real_username = InitRealUsername(s.con.how, s.con.u)
          /\ username = BaseInitUsername(s.con.how, s.con.u,
                                         InitKwargUsername(s.con.how, s.con.u))
          /\ password = s.password
          /\ auth_timeout = s.auth_timeout
          /\ configured = s.auth_timeout
          /\ use_keys = s.keys.use_keys
          /\ system_host_keys = s.keys.system_host_keys
          /\ alt_host_keys = s.keys.alt_host_keys
    /\ session_log_fin = FALSE
    /\ chanClosed = FALSE
    /\ devPrompt = P_oper
    /\ emitsLeft = 0
    /\ silent = 0
    /\ pc = "idle"
    /\ elapsed = 0
    /\ output = <<>>
    /\ log = <<>>
    /\ reads = <<>>
    /\ nreads = 0
    /\ result = [op |-> "none", outcome |-> "none", ret |-> <<>>, value |-> None,
                 arg |-> None]

----------------------------------------------------------------------------
(* Channel Adapter (BaseConnection): events of the current call *)

\* an event other than a write: a probe, a blocking read, a disconnect, a raise
EvAt(kind, data, t) == [ev |-> kind, data |-> data, at |-> t, by |-> ""]

\* write_channel(data) at time t, issued by the statement named `by`
WriteAt(by, data, t) == [ev |-> "write", data |-> data, at |-> t, by |-> by]

IsWrite(e) == e.ev = "write"

\* the data written to the channel during the current call, in order
Writes == SelectSeq(log, IsWrite)

Count(kind) == Cardinality({i \in 1..Len(log) : log[i].ev = kind})

\* the device emits a chunk only while it has some left and has not gone quiet
CanEmit(left, sil) == left > 0 /\ sil <= MaxDelay

\* what read_channel() may return
ReadChoices(left, sil) == IF CanEmit(left, sil) THEN Chunks \cup {<<>>} ELSE {<<>>}

LeftAfter(left, r) == IF r = <<>> THEN left ELSE left - 1

SilentAfter(sil, r) ==
    IF r # <<>> THEN 0 ELSE IF sil > MaxDelay THEN sil ELSE sil + 1

----------------------------------------------------------------------------
(* Login handshake: EricssonMinilinkBase.special_login_handler *)

\* how a call ended: returned or the exception raised, the value returned,
\* the value the exception carries, the argument the call was given
Done(op, outcome, ret, value) ==
    [op |-> op, outcome |-> outcome, ret |-> ret, value |-> value, arg |-> None]

EffectiveTimeout_zero_kept(t) == IF t = None THEN Some(DefaultAuthTimeout) ELSE t

\* if not self.auth_timeout: self.auth_timeout = 20
EffectiveTimeout(t) == IF Falsy(t) THEN Some(DefaultAuthTimeout) ELSE t

\* login(): the statements before the loop
LoginCall ==
    /\ pc = "idle"
    /\ auth_timeout' = EffectiveTimeout(auth_timeout)
    /\ elapsed' = 0
    /\ output' = <<>>
    /\ log' = <<>>
    /\ reads' = <<>>
    /\ nreads' = 0
    /\ emitsLeft' = MaxEmits
    /\ silent' = 0
    /\ pc' = "login"
    /\ result' = Done("login", "running", <<>>, None)
    /\ UNCHANGED <<cfgVars, session_log_fin, chanClosed, devPrompt>>

\* while time.time() - start < self.auth_timeout
LoopGuard == elapsed < auth_timeout[1] * TicksPerSecond

\* what the first read_channel() of a pass may return
FirstReads == ReadChoices(emitsLeft, silent)

\* what the second read of a pass may return; it is made only when the
\* buffer is still empty after the first (<<>> stands for "not made")
SecondReads(r1) ==
    IF output \o r1 = <<>>
    THEN ReadChoices(LeftAfter(emitsLeft, r1), SilentAfter(silent, r1))
    ELSE {<<>>}

Poll_overwrite(r1, r2) ==
    IF output \o r1 # <<>>
    THEN [out |-> r1, t |-> elapsed, n |-> 1, rd |-> <<r1>>,
          left |-> LeftAfter(emitsLeft, r1), sil |-> SilentAfter(silent, r1)]
    ELSE [out |-> r2, t |-> elapsed + SleepPoll, n |-> 2,
          rd |-> <<r1, r2>>,
          left |-> LeftAfter(LeftAfter(emitsLeft, r1), r2),
          sil |-> SilentAfter(SilentAfter(silent, r1), r2)]

\* lines 69-75: output += read_channel(); if empty, sleep 0.5 and read again
Poll(r1, r2) ==
    IF output \o r1 # <<>>
    THEN [out |-> output \o r1, t |-> elapsed, n |-> 1, rd |-> <<r1>>,
          left |-> LeftAfter(emitsLeft, r1), sil |-> SilentAfter(silent, r1)]
    ELSE [out |-> (output \o r1) \o r2, t |-> elapsed + SleepPoll, n |-> 2,
          rd |-> <<r1, r2>>,
          left |-> LeftAfter(LeftAfter(emitsLeft, r1), r2),
          sil |-> SilentAfter(SilentAfter(silent, r1), r2)]

IsUsernamePrompt(out) == Contains(out, T_login) \/ Contains(out, T_User)

IsPasswordPrompt_one_casing(out) == Contains(out, T_password)

IsPasswordPrompt(out) == Contains(out, T_password) \/ Contains(out, T_Password)

IsBusy(out) == Contains(out, T_busy)

Branch_nudge_on_unmatched(out) ==
    IF IsUsernamePrompt(out) THEN "username"
    ELSE IF IsPasswordPrompt(out) THEN "password"
    ELSE IF IsBusy(out) THEN "busy"
    ELSE "nudge"

Branch_password_first(out) ==
    IF out = <<>> THEN "nudge"
    ELSE IF IsPasswordPrompt(out) THEN "password"
    ELSE IF IsUsernamePrompt(out) THEN "username"
    ELSE IF IsBusy(out) THEN "busy"
    ELSE "nomatch"

\* the if / elif chain of lines 77-92
Branch(out) ==
    IF out = <<>> THEN "nudge"
    ELSE IF IsUsernamePrompt(out) THEN "username"
    ELSE IF IsPasswordPrompt(out) THEN "password"
    ELSE IF IsBusy(out) THEN "busy"
    ELSE "nomatch"

PcAfterPassword_no_break == "login"

\* break: the password write ends the loop
PcAfterPassword == "idle"

BusyEvents_no_disconnect(t) == <<EvAt("raise", <<>>, t)>>

\* self.disconnect(); raise ValueError("CLI is currently busy")
BusyEvents(t) == <<EvAt("disconnect", <<>>, t), EvAt("raise", <<>>, t)>>

AfterRetry_no_sleep(t) == t

\* time.sleep(1) at the end of a pass that neither continued nor left
AfterRetry(t) == t + SleepRetry

\* what every pass of the loop does to the device side and the read count
Polled(p) ==
    /\ nreads' = nreads + p.n
    /\ reads' = reads \o p.rd
    /\ emitsLeft' = p.left
    /\ silent' = p.sil

\* still no output: send an <enter> and try again in the next pass
LoopNudge ==
    /\ pc = "login" /\ LoopGuard /\ ~chanClosed
    /\ \E r1 \in FirstReads : \E r2 \in SecondReads(r1) :
          LET p == Poll(r1, r2) IN
                /\ Branch(p.out) = "nudge"
                /\ Polled(p)
                /\ log' = Append(log, WriteAt("nudge", RETURN, p.t))
                /\ output' = p.out
                /\ elapsed' = p.t
    /\ UNCHANGED <<cfgVars, auth_timeout, session_log_fin, chanClosed, devPrompt,
                   pc, result>>

\* "login:" or "User:": write the real username, reset output, sleep 1
LoopUsername ==
    /\ pc = "login" /\ LoopGuard /\ ~chanClosed
    /\ \E r1 \in FirstReads : \E r2 \in SecondReads(r1) :
          LET p == Poll(r1, r2) IN
                /\ Branch(p.out) = "username"
                /\ Polled(p)
                /\ log' = Append(log, WriteAt("username", real_username \o RETURN, p.t))
                /\ output' = <<>>
                /\ elapsed' = AfterRetry(p.t)
    /\ UNCHANGED <<cfgVars, auth_timeout, session_log_fin, chanClosed, devPrompt,
                   pc, result>>

\* "password:" or "Password:": assert the password is a str, write it, break
LoopPassword ==
    /\ pc = "login" /\ LoopGuard /\ ~chanClosed
    /\ \E r1 \in FirstReads : \E r2 \in SecondReads(r1) :
          LET p == Poll(r1, r2) IN
                /\ Branch(p.out) = "password"
                /\ Polled(p)
                /\ output' = p.out
                /\ elapsed' = p.t
                /\ IF password = None
                   THEN /\ log' = Append(log, EvAt("raise", <<>>, p.t))
                        /\ result' = Done("login", "AssertionError", <<>>, None)
                   ELSE /\ log' = Append(log,
                                     WriteAt("password", password[1] \o RETURN, p.t))
                        /\ result' = Done("login", "returned", <<>>, None)
    /\ pc' = PcAfterPassword
    /\ UNCHANGED <<cfgVars, auth_timeout, session_log_fin, chanClosed, devPrompt>>

\* "busy": self.disconnect(), then raise ValueError("CLI is currently busy")
LoopBusy ==
    /\ pc = "login" /\ LoopGuard /\ ~chanClosed
    /\ \E r1 \in FirstReads : \E r2 \in SecondReads(r1) :
          LET p == Poll(r1, r2) IN
                /\ Branch(p.out) = "busy"
                /\ Polled(p)
                /\ output' = p.out
                /\ elapsed' = p.t
                /\ log' = log \o BusyEvents(p.t)
    /\ chanClosed' = TRUE
    /\ result' = Done("login", "ValueError_busy", <<>>, None)
    /\ pc' = "idle"
    /\ UNCHANGED <<cfgVars, auth_timeout, session_log_fin, devPrompt>>

\* none of the checks succeeded: sleep 1 and try again
LoopNoMatch ==
    /\ pc = "login" /\ LoopGuard /\ ~chanClosed
    /\ \E r1 \in FirstReads : \E r2 \in SecondReads(r1) :
          LET p == Poll(r1, r2) IN
                /\ Branch(p.out) = "nomatch"
                /\ Polled(p)
                /\ output' = p.out
                /\ elapsed' = AfterRetry(p.t)
    /\ UNCHANGED <<cfgVars, auth_timeout, session_log_fin, chanClosed, devPrompt,
                   pc, log, result>>

\* read_channel() on a closed channel: the channel error leaves the loop
LoginChannelError ==
    /\ pc = "login" /\ LoopGuard /\ chanClosed
    /\ log' = Append(log, EvAt("raise", <<>>, elapsed))
    /\ result' = Done("login", "ChannelError", <<>>, None)
    /\ pc' = "idle"
    /\ UNCHANGED <<cfgVars, auth_timeout, session_log_fin, chanClosed, devPrompt,
                   emitsLeft, silent, elapsed, output, reads, nreads>>

\* the else of the while: raise NetmikoTimeoutException(auth_timeout=...)
LoginTimedOut ==
    /\ pc = "login" /\ ~LoopGuard
    /\ log' = Append(log, EvAt("raise", <<>>, elapsed))
    /\ result' = Done("login", "NetmikoTimeoutException", <<>>, auth_timeout)
    /\ pc' = "idle"
    /\ UNCHANGED <<cfgVars, auth_timeout, session_log_fin, chanClosed, devPrompt,
                   emitsLeft, silent, elapsed, output, reads, nreads>>

----------------------------------------------------------------------------
(* Collaborators of the generic connection layer (BaseConnection) *)

T_marker == <<")", "#">>
T_config == <<"c", "o", "n", "f", "i", "g">>
T_configure == <<"c", "o", "n", "f", "i", "g", "u", "r", "e">>
T_quit == <<"q", "u", "i", "t">>
T_exit == <<"e", "x", "i", "t">>

Whitespace == {" ", "\n", "\t", "\r"}

\* Python str.rstrip()
RECURSIVE RStrip(_)
RStrip(text) ==
    IF text # <<>> /\ Last(text) \in Whitespace
    THEN RStrip(SubSeq(text, 1, Len(text) - 1))
    ELSE text

\* normalize_cmd: strip trailing whitespace, append the line terminator
NormalizeCmd(command) == RStrip(command) \o RETURN

\* check_config_mode(check_string): is the marker in the live prompt
CheckConfigMode(prompt, check_string) == Contains(prompt, check_string)

\* a write or read on a closed channel surfaces a channel-level error
ChannelFails == chanClosed

\* what a call other than login() leaves of the handshake state
CallStart ==
    /\ elapsed' = 0
    /\ output' = <<>>
    /\ emitsLeft' = 0
    /\ silent' = 0
    /\ reads' = <<>>

\* entry commands a caller may pass instead of the default
CommandOverrides == {None, Some(<<"c", "f", "g", " ">>)}

----------------------------------------------------------------------------
(* Config-Mode Controller: config_mode of EricssonMinilink63SSH / 66SSH *)

\* the default of the config_command parameter
DefaultConfigCommand(v) == IF v = "ML63xx" THEN T_config ELSE T_configure

ConfigCommand(v, override) ==
    IF override = None THEN DefaultConfigCommand(v) ELSE override[1]

\* the prompt after the device has handled the entry command
PromptAfterEntry(prompt, accepted) == IF accepted THEN P_conf ELSE prompt

\* what read_until_pattern returns: the echoed command and the new prompt
Transcript(cmd, prompt) == NormalizeCmd(cmd) \o prompt

\* a probe event records the prompt the probe saw
Probe(prompt) == EvAt("probe", prompt, 0)

AlreadyInConfig_wrong_marker(prompt) == CheckConfigMode(prompt, <<"#", ")">>)

\* if super().check_config_mode(check_string=")#"): return output
AlreadyInConfig(prompt) == CheckConfigMode(prompt, T_marker)

EntryFailed_never(prompt) == FALSE

\* if not super().check_config_mode(check_string=")#"): raise ValueError
EntryFailed(prompt) == ~CheckConfigMode(prompt, T_marker)

\* self.write_channel(self.normalize_cmd(command=config_command))
EntryWrite(cmd) == WriteAt("entry", NormalizeCmd(cmd), 0)

\* the events of config_mode from the first probe to the second
EntryEvents(cmd, before, after) ==
    <<Probe(before), EntryWrite(cmd),
      EvAt("read_until", Transcript(cmd, after), 0), Probe(after)>>

\* the value config_mode returns after a successful entry
EntryReturn(cmd, after) == Transcript(cmd, after)

ConfigModeCall ==
    /\ pc = "idle"
    /\ CallStart
    /\ \E override \in CommandOverrides, accepted \in BOOLEAN :
         LET cmd == ConfigCommand(variant, override)
             after == PromptAfterEntry(devPrompt, accepted)
         IN
         IF ChannelFails
         THEN /\ ~accepted /\ override = None
              /\ log' = <<EvAt("raise", <<>>, 0)>>
              /\ nreads' = 0
              /\ devPrompt' = devPrompt
              /\ result' = Done("config_mode", "ChannelError", <<>>, None)
         ELSE IF AlreadyInConfig(devPrompt)
         THEN /\ ~accepted
              /\ log' = <<Probe(devPrompt)>>
              /\ nreads' = 0
              /\ devPrompt' = devPrompt
              /\ result' = [Done("config_mode", "returned", <<>>, None)
                              EXCEPT !.arg = override]
         ELSE /\ devPrompt' = after
              /\ nreads' = 1
              /\ IF EntryFailed(after)
                 THEN /\ log' = Append(EntryEvents(cmd, devPrompt, after),
                                       EvAt("raise", <<>>, 0))
                      /\ result' = [Done("config_mode", "ValueError_config",
                                          <<>>, None) EXCEPT !.arg = override]
                 ELSE /\ log' = EntryEvents(cmd, devPrompt, after)
                      /\ result' = [Done("config_mode", "returned",
                                          EntryReturn(cmd, after), None)
                                      EXCEPT !.arg = override]
    /\ UNCHANGED <<cfgVars, auth_timeout, session_log_fin, chanClosed, pc>>

----------------------------------------------------------------------------
(* Session Lifecycle Hooks: cleanup of EricssonMinilink63SSH / 66SSH *)

LogoutCommand_always_exit(v) == T_exit

\* the logout keyword of the device generation
LogoutCommand(v) == IF v = "ML63xx" THEN T_quit ELSE T_exit

CleanupCall ==
    /\ pc = "idle"
    /\ CallStart
    /\ session_log_fin' = TRUE
    /\ nreads' = 0
    /\ IF ChannelFails
       THEN /\ log' = <<EvAt("raise", <<>>, 0)>>
            /\ result' = Done("cleanup", "ChannelError", <<>>, None)
       ELSE /\ log' = <<WriteAt("logout", LogoutCommand(variant) \o RETURN, 0)>>
            /\ result' = Done("cleanup", "returned", <<>>, None)
    /\ UNCHANGED <<cfgVars, auth_timeout, chanClosed, devPrompt, pc>>

----------------------------------------------------------------------------
(* Save-Configuration Operation: EricssonMinilinkBase.save_config *)

T_write == <<"w", "r", "i", "t", "e">>
T_hash == <<"#">>

\* save commands a caller may pass instead of the default
SaveOverrides == {None, Some(<<"w", "r", " ">>)}

\* what the device prints in answer to the save command
SaveOutputs == {<<"O", "K", "\n">>, <<>>}

\* the default of the cmd parameter
SaveCommand(override) == IF override = None THEN T_write ELSE override[1]

\* the prompt after the device has handled "exit"
PromptAfterExit(prompt, left) == IF left THEN P_oper ELSE prompt

\* exit_config_mode(exit_config, pattern): send the exit command, read until
\* the pattern, probe again
ExitEvents(exit_config, pattern, after) ==
    <<WriteAt("exit", NormalizeCmd(exit_config), 0),
      EvAt("read_until", NormalizeCmd(exit_config) \o after, 0),
      Probe(after)>>

\* exit_config_mode fails when the session is still in configuration mode
ExitFailed(after) == CheckConfigMode(after, T_marker)

\* what the channel delivers after a command: echo, answer, prompt
RawTranscript(command_string, answer, prompt) ==
    (NormalizeCmd(command_string) \o answer) \o prompt

\* send_command_timing: the raw transcript is the echoed command, the
\* device's answer and the prompt; stripping removes the echo / the prompt
SendCommandTiming(command_string, strip_prompt, strip_command, answer, prompt) ==
    (IF strip_command THEN <<>> ELSE NormalizeCmd(command_string))
    \o answer
    \o (IF strip_prompt THEN <<>> ELSE prompt)

StripMode(strip_prompt, strip_command) ==
    IF strip_prompt
    THEN IF strip_command THEN "strip_both" ELSE "strip_prompt"
    ELSE IF strip_command THEN "strip_command" ELSE "strip_none"

\* the send_command_timing call as seen on the channel: the command and
\* the stripping asked for, then what the channel delivered
SendEvents(command_string, strip_prompt, strip_command, answer, prompt) ==
    <<[ev |-> "send_timing", data |-> command_string, at |-> 0,
       by |-> StripMode(strip_prompt, strip_command)],
      EvAt("read_timing", RawTranscript(command_string, answer, prompt), 0)>>

SaveNeedsExit_never(prompt) == FALSE

\* if super().check_config_mode(check_string=")#")
SaveNeedsExit(prompt) == CheckConfigMode(prompt, T_marker)

SaveStripPrompt_on == TRUE

\* strip_prompt=False
SaveStripPrompt == FALSE

\* strip_command=False
SaveStripCommand == FALSE

\* super().exit_config_mode(exit_config="exit", pattern="#")
SaveExitEvents(after) == ExitEvents(T_exit, T_hash, after)

\* self.send_command_timing(command_string=cmd, strip_prompt=False,
\* strip_command=False) as seen on the channel
SaveSend(cmd, answer, prompt) ==
    SendEvents(cmd, SaveStripPrompt, SaveStripCommand, answer, prompt)

\* return self.send_command_timing(command_string=cmd, ...)
SaveReturn(cmd, answer, prompt) ==
    SendCommandTiming(cmd, SaveStripPrompt, SaveStripCommand, answer, prompt)

SaveConfigCall ==
    /\ pc = "idle"
    /\ CallStart
    /\ \E override \in SaveOverrides, left \in BOOLEAN, answer \in SaveOutputs :
         LET cmd == SaveCommand(override)
             after == PromptAfterExit(devPrompt, left)
         IN
         IF ChannelFails
         THEN /\ ~left /\ override = None /\ answer = <<>>
              /\ log' = <<EvAt("raise", <<>>, 0)>>
              /\ nreads' = 0
              /\ devPrompt' = devPrompt
              /\ result' = Done("save_config", "ChannelError", <<>>, None)
         ELSE IF ~SaveNeedsExit(devPrompt)
         THEN /\ ~left
              /\ log' = <<Probe(devPrompt)>> \o SaveSend(cmd, answer, devPrompt)
              /\ nreads' = 0
              /\ devPrompt' = devPrompt
              /\ result' = [Done("save_config", "returned",
                                  SaveReturn(cmd, answer, devPrompt), None)
                              EXCEPT !.arg = override]
         ELSE /\ devPrompt' = after
              /\ nreads' = 1
              /\ IF ExitFailed(after)
                 THEN /\ answer = <<>>
                      /\ log' = (<<Probe(devPrompt)>> \o SaveExitEvents(after))
                                    \o <<EvAt("raise", <<>>, 0)>>
                      /\ result' = [Done("save_config", "ValueError_exit",
                                          <<>>, None) EXCEPT !.arg = override]
                 ELSE /\ log' = (<<Probe(devPrompt)>> \o SaveExitEvents(after))
                                    \o SaveSend(cmd, answer, after)
                      /\ result' = [Done("save_config", "returned",
                                          SaveReturn(cmd, answer, after), None)
                                      EXCEPT !.arg = override]
    /\ UNCHANGED <<cfgVars, auth_timeout, session_log_fin, chanClosed, pc>>

----------------------------------------------------------------------------
(* Session Lifecycle Hooks: EricssonMinilinkBase.session_preparation *)

\* pri_prompt_terminator="#", alt_prompt_terminator=">"
PromptTerminators == <<"#", ">">>

\* self.set_base_prompt(pri_prompt_terminator="#",
\*                      alt_prompt_terminator=">", delay_factor=1)
SetBasePromptEvent ==
    [ev |-> "set_base_prompt", data |-> PromptTerminators, at |-> 0,
     by |-> "delay_factor_1"]

SessionPreparationCall ==
    /\ pc = "idle"
    /\ CallStart
    /\ IF ChannelFails
       THEN /\ log' = <<EvAt("raise", <<>>, 0)>>
            /\ nreads' = 0
            /\ result' = Done("session_preparation", "ChannelError", <<>>, None)
       ELSE /\ log' = <<SetBasePromptEvent, Probe(devPrompt)>>
            /\ nreads' = 1
            /\ result' = Done("session_preparation", "returned", <<>>, None)
    /\ UNCHANGED <<cfgVars, auth_timeout, session_log_fin, chanClosed,
                   devPrompt, pc>>

----------------------------------------------------------------------------
(* SSH Client Builder: EricssonMinilinkBase._build_ssh_client *)

\* self.alt_key_file
T_alt_key_file == <<"k", "h">>

\* if not self.use_keys: SSHClient_noauth() else: SSHClient()
ClientClass(uk) == IF ~uk THEN "SSHClient_noauth" ELSE "SSHClient"

\* if self.system_host_keys: remote_conn_pre.load_system_host_keys()
LoadsSystemKeys(shk) == shk

LoadsAltKeys_file_unchecked(ahk, exists) == ahk

\* if self.alt_host_keys and path.isfile(self.alt_key_file)
LoadsAltKeys(ahk, exists) == ahk /\ exists

\* a step of the builder: the call made and, in `by`, its operand or answer
BuildEv(kind, what) == [ev |-> kind, data |-> <<>>, at |-> 0, by |-> what]

\* path.isfile is only evaluated when alt_host_keys is set
IsFileEvents(ahk, exists) ==
    IF ahk THEN <<[ev |-> "isfile", data |-> T_alt_key_file, at |-> 0,
                   by |-> IF exists THEN "yes" ELSE "no"]>>
    ELSE <<>>

\* the calls _build_ssh_client makes, in order, up to its return
BuildEvents(uk, shk, ahk, exists) ==
    <<BuildEv("new_client", ClientClass(uk))>>
    \o (IF LoadsSystemKeys(shk)
        THEN <<BuildEv("load_system_host_keys", "")>> ELSE <<>>)
    \o IsFileEvents(ahk, exists)
    \o (IF LoadsAltKeys(ahk, exists)
        THEN <<EvAt("load_host_keys", T_alt_key_file, 0)>> ELSE <<>>)
    \o <<BuildEv("set_missing_host_key_policy", "key_policy"),
         BuildEv("return", ClientClass(uk))>>

BuildSshClientCall ==
    /\ pc = "idle"
    /\ CallStart
    /\ nreads' = 0
    /\ \E exists \in BOOLEAN :
         /\ (~alt_host_keys => ~exists)
         /\ log' = BuildEvents(use_keys, system_host_keys, alt_host_keys, exists)
    /\ result' = Done("_build_ssh_client", "returned", <<>>, None)
    /\ UNCHANGED <<cfgVars, auth_timeout, session_log_fin, chanClosed,
                   devPrompt, pc>>

----------------------------------------------------------------------------

Next ==
    \/ LoginCall
    \/ LoopNudge
    \/ LoopUsername
    \/ LoopPassword
    \/ LoopBusy
    \/ LoopNoMatch
    \/ LoginTimedOut
    \/ LoginChannelError
    \/ ConfigModeCall
    \/ CleanupCall
    \/ SaveConfigCall
    \/ BuildSshClientCall
    \/ SessionPreparationCall

Spec == Init /\ [][Next]_vars

\* a login that has started keeps executing: the loop is straight-line code
\* whose reads are non-blocking and whose sleeps are finite
LoginStep ==
    \/ LoopNudge
    \/ LoopUsername
    \/ LoopPassword
    \/ LoopBusy
    \/ LoopNoMatch
    \/ LoginTimedOut
    \/ LoginChannelError

SpecFair == Spec /\ WF_vars(LoginStep)

----------------------------------------------------------------------------
(* Vocabulary of the properties *)

LoginCalled == result.op = "login"

LoginDone == pc = "idle" /\ result.op = "login"

Authenticated == LoginDone /\ result.outcome = "returned"

DeviceBusy == LoginDone /\ result.outcome = "ValueError_busy"

LoginTimeout == LoginDone /\ result.outcome = "NetmikoTimeoutException"

UserPrompts == {T_User, T_login}

PassPrompts == {T_Password, T_password}

\* the positions in Writes at which `data` was written
WritesOf(data) == {i \in 1..Len(Writes) : Writes[i].data = data}

PasswordWrites ==
    IF password = None THEN {} ELSE WritesOf(password[1] \o RETURN)

\* the timeout (seconds) the configuration asks for: 20 when unset or zero
Expected ==
    IF configured = None \/ configured = Some(0) THEN 20 ELSE configured[1]

----------------------------------------------------------------------------
(* Login handshake properties *)

\* the device sent a username prompt and, in a later read, a password prompt
C1_Scenario ==
    \E i, j \in 1..Len(reads) :
        i < j /\ reads[i] \in UserPrompts /\ reads[j] \in PassPrompts

\* C1: when the device emits a username prompt ("User:" or "login:") and,
\* after the username was written, a password prompt ("Password:" or
\* "password:"), login() with a password configured ends authenticated; it
\* has written real username + RETURN, later password + RETURN, and that
\* password write is the last write of the call.
C1_LoginSucceeds ==
    (LoginCalled /\ C1_Scenario /\ password # None) =>
        /\ Authenticated
        /\ Writes # <<>>
        /\ Last(Writes).data = password[1] \o RETURN
        /\ \E i \in WritesOf(real_username \o RETURN) : i < Len(Writes)

\* "User:" answered with the username, then "Password:" with the password
C1_Witness ==
    /\ Authenticated
    /\ \E i, j \in 1..Len(reads) :
          i < j /\ reads[i] = T_User /\ reads[j] = T_Password
    /\ Last(Writes).data = Secret \o RETURN
    /\ real_username = Admin

\* C2: login() returns normally exactly when it wrote password + RETURN
\* once and that write is the last write of the call; while the loop runs
\* and on the busy and timed-out outcomes the password has not been written.
C2_OnlySuccessExit ==
    LoginCalled =>
        /\ LoginDone =>
             (result.outcome = "returned" <=>
                 /\ Cardinality(PasswordWrites) = 1
                 /\ Len(Writes) \in PasswordWrites)
        /\ (pc = "login" \/ DeviceBusy \/ LoginTimeout) => PasswordWrites = {}

C2_Witness ==
    /\ Authenticated
    /\ Len(Writes) >= 3
    /\ PasswordWrites = {Len(Writes)}

\* the buffer holds "busy" and neither a username nor a password prompt
C3_Scenario ==
    IsBusy(output) /\ ~IsUsernamePrompt(output) /\ ~IsPasswordPrompt(output)

\* C3: when the buffer of login() holds "busy" and no username or password
\* prompt, login() fails with the busy error; disconnect() is invoked
\* exactly once, before the error is raised, the channel is closed, and no
\* channel write follows the disconnect.
C3_BusyDisconnects ==
    LoginCalled =>
        /\ C3_Scenario => DeviceBusy
        /\ DeviceBusy =>
             /\ Count("disconnect") = 1
             /\ Len(log) >= 2
             /\ log[Len(log) - 1].ev = "disconnect"
             /\ log[Len(log)].ev = "raise"
             /\ chanClosed
             /\ \A i, j \in 1..Len(log) :
                   (i < j /\ log[i].ev = "disconnect") => log[j].ev # "write"

C3_Witness ==
    /\ DeviceBusy
    /\ C3_Scenario
    /\ Count("disconnect") = 1
    /\ Len(Writes) >= 1

\* every read returned output, and all of it was unrecognisable
C4_OnlyNoise == reads # <<>> /\ \A i \in 1..Len(reads) : reads[i] = Noise

\* the first read returned unrecognisable output and nothing else ever came
C4_Scenario ==
    /\ reads # <<>>
    /\ reads[1] = Noise
    /\ \A i \in 1..Len(reads) : reads[i] \in {Noise, <<>>}

\* C4: when the channel returns only output that contains none of "login:",
\* "User:", "password:", "Password:", "busy" (from the first read on, so the
\* buffer is never empty), login() writes nothing and never disconnects, and
\* it ends with the timeout error, carrying the effective timeout, in the
\* first pass at which the elapsed time has reached the timeout.
C4_NoiseTimesOut ==
    (LoginCalled /\ C4_Scenario) =>
        /\ Writes = <<>>
        /\ Count("disconnect") = 0
        /\ ~chanClosed
        /\ LoginDone =>
             /\ LoginTimeout
             /\ result.value = Some(Expected)
             /\ elapsed >= Expected * TicksPerSecond
             /\ elapsed < Expected * TicksPerSecond + SleepRetry

C4_Witness ==
    /\ LoginTimeout
    /\ C4_OnlyNoise
    /\ Len(reads) >= 2
    /\ Writes = <<>>

\* C5: during and after login() the timeout in force is 20 when auth_timeout
\* was configured unset (None) or zero and the configured value otherwise;
\* the timeout error carries that value and is raised in the pass in which
\* the elapsed time first reaches it.
C5_EffectiveTimeout ==
    LoginCalled =>
        /\ auth_timeout = Some(Expected)
        /\ LoginTimeout =>
             /\ result.value = Some(Expected)
             /\ elapsed >= Expected * TicksPerSecond
             /\ elapsed < Expected * TicksPerSecond + SleepPoll + SleepRetry

C5_Witness ==
    /\ LoginTimeout
    /\ configured = Some(0)
    /\ result.value = Some(20)
    /\ elapsed >= 40

----------------------------------------------------------------------------
(* Construction properties *)

\* C6: whatever username the caller supplies, and however, the username
\* handed to the transport is the placeholder "cli", and what login() writes
\* at the username prompt is the caller's username + RETURN.
C6_PlaceholderUsername ==
    /\ username = CLI
    /\ \A i \in 1..Len(log) :
          (LoginCalled /\ log[i].by = "username") => log[i].data = given \o RETURN

----------------------------------------------------------------------------
(* Configuration-mode properties *)

ConfigModeCalled == result.op = "config_mode"

\* the first probe of the call ran and saw the marker ")#" / did not see it
FirstProbeInConfig ==
    /\ ConfigModeCalled /\ log # <<>>
    /\ log[1].ev = "probe" /\ Contains(log[1].data, <<")", "#">>)

FirstProbeNotInConfig ==
    /\ ConfigModeCalled /\ log # <<>>
    /\ log[1].ev = "probe" /\ ~Contains(log[1].data, <<")", "#">>)

\* C7: config_mode() called when the first probe already shows ")#" sends
\* nothing, makes no blocking read and no second probe, returns "" and
\* leaves the device in configuration mode (so a further call does the same).
C7_AlreadyInConfigNoOp ==
    FirstProbeInConfig =>
        /\ Len(log) = 1
        /\ Writes = <<>>
        /\ nreads = 0
        /\ result.outcome = "returned"
        /\ result.ret = <<>>
        /\ devPrompt = log[1].data

C7_Witness ==
    /\ FirstProbeInConfig
    /\ result.outcome = "returned"
    /\ result.ret = <<>>
    /\ variant = "ML63xx"
    /\ result.arg # None

\* the entry command as it must reach the channel
C8_ExpectedEntry ==
    IF result.arg = None
    THEN IF variant = "ML63xx"
         THEN <<"c", "o", "n", "f", "i", "g", "\n">>
         ELSE <<"c", "o", "n", "f", "i", "g", "u", "r", "e", "\n">>
    ELSE <<"c", "f", "g", "\n">>

\* C8: when the first probe does not show ")#", config_mode() writes the
\* normalized entry command once ("config" for ML63xx, "configure" for
\* ML66xx, or the override), then reads until the pattern, then probes
\* again; it raises the entry failure if that probe does not show ")#" and
\* otherwise returns the transcript of the pattern read.
C8_EntrySequence ==
    FirstProbeNotInConfig =>
        /\ Len(log) >= 4
        /\ log[2].ev = "write" /\ log[2].data = C8_ExpectedEntry
        /\ log[3].ev = "read_until"
        /\ log[4].ev = "probe"
        /\ Len(Writes) = 1
        /\ Count("probe") = 2
        /\ IF Contains(log[4].data, <<")", "#">>)
           THEN /\ Len(log) = 4
                /\ result.outcome = "returned"
                /\ result.ret = log[3].data
           ELSE /\ Len(log) = 5
                /\ log[5].ev = "raise"
                /\ result.outcome = "ValueError_config"

C8_Witness ==
    /\ FirstProbeNotInConfig
    /\ variant = "ML66xx"
    /\ result.arg = None
    /\ result.outcome = "ValueError_config"
    /\ Len(Writes) = 1

----------------------------------------------------------------------------
(* Cleanup properties *)

CleanupCalled == result.op = "cleanup"

\* C9: cleanup() on an open channel writes exactly one message, "quit" +
\* RETURN for ML63xx and "exit" + RETURN for ML66xx, marks session logging
\* finalized, and reads nothing from the channel.
C9_CleanupWritesLogout ==
    (CleanupCalled /\ ~chanClosed) =>
        /\ result.outcome = "returned"
        /\ Len(log) = 1
        /\ Len(Writes) = 1
        /\ Writes[1].data = (IF variant = "ML63xx"
                              THEN <<"q", "u", "i", "t", "\n">>
                              ELSE <<"e", "x", "i", "t", "\n">>)
        /\ session_log_fin
        /\ nreads = 0
        /\ Count("read_until") = 0

C9_Witness ==
    /\ CleanupCalled /\ ~chanClosed
    /\ variant = "ML63xx"
    /\ Writes = <<WriteAt("logout", <<"q", "u", "i", "t", "\n">>, 0)>>
    /\ session_log_fin

\* C10: cleanup() completes without raising, with session logging marked
\* finalized, also when the channel is already closed.
C10_CleanupNeverFails ==
    CleanupCalled => (result.outcome = "returned" /\ session_log_fin)

----------------------------------------------------------------------------
(* Save-configuration properties *)

SaveCalled == result.op = "save_config"

\* the probe of save_config ran and did not see / saw the marker ")#"
SaveProbeNotInConfig ==
    /\ SaveCalled /\ log # <<>>
    /\ log[1].ev = "probe" /\ ~Contains(log[1].data, <<")", "#">>)

SaveProbeInConfig ==
    /\ SaveCalled /\ log # <<>>
    /\ log[1].ev = "probe" /\ Contains(log[1].data, <<")", "#">>)

\* the save command as it must be handed to the timing-based send
C11_ExpectedCommand ==
    IF result.arg = None THEN <<"w", "r", "i", "t", "e">> ELSE result.arg[1]

\* C11: save_config() called when the probe shows the session outside
\* configuration mode writes no exit command, hands the save command
\* (default "write") once to the timing-based send with prompt stripping
\* and command stripping both off, and returns exactly what that send read.
C11_SaveOutsideConfig ==
    SaveProbeNotInConfig =>
        /\ Len(log) = 3
        /\ Writes = <<>>
        /\ log[2].ev = "send_timing"
        /\ log[2].data = C11_ExpectedCommand
        /\ log[2].by = "strip_none"
        /\ log[3].ev = "read_timing"
        /\ Count("send_timing") = 1
        /\ result.outcome = "returned"
        /\ result.ret = log[3].data

C11_Witness ==
    /\ SaveProbeNotInConfig
    /\ result.arg = None
    /\ result.outcome = "returned"
    /\ result.ret = <<"w", "r", "i", "t", "e", "\n", "O", "K", "\n", "h", "#">>

\* C12: save_config() called when the probe shows configuration mode first
\* runs the exit operation (write "exit" normalized, read until the pattern,
\* probe again); if the session still shows ")#" it raises and the save
\* command is never sent, otherwise the save command is sent once, after
\* the exit has completed.
C12_ExitBeforeSave ==
    SaveProbeInConfig =>
        /\ Len(log) >= 5
        /\ log[2].ev = "write" /\ log[2].data = <<"e", "x", "i", "t", "\n">>
        /\ log[3].ev = "read_until"
        /\ log[4].ev = "probe"
        /\ Len(Writes) = 1
        /\ IF Contains(log[4].data, <<")", "#">>)
           THEN /\ Len(log) = 5
                /\ log[5].ev = "raise"
                /\ Count("send_timing") = 0
                /\ result.outcome = "ValueError_exit"
           ELSE /\ Len(log) = 6
                /\ log[5].ev = "send_timing"
                /\ Count("send_timing") = 1
                /\ result.outcome = "returned"

C12_Witness ==
    /\ SaveProbeInConfig
    /\ Contains(log[4].data, <<")", "#">>)
    /\ result.outcome = "ValueError_exit"
    /\ Count("send_timing") = 0

----------------------------------------------------------------------------
(* SSH client builder properties *)

BuildCalled == result.op = "_build_ssh_client"

\* positions in the log of the events of one kind
Positions(kind) == {i \in 1..Len(log) : log[i].ev = kind}

\* the alternate key file was looked up and found
AltFileFound == \E i \in Positions("isfile") : log[i].by = "yes"

\* C13: _build_ssh_client creates the client without authentication exactly
\* when use_keys is false, loads the system host keys exactly when
\* system_host_keys is true, loads the alternate key file exactly when
\* alt_host_keys is true and the file exists (returning normally when it
\* does not), and applies the key policy once, after every load and as the
\* last step before returning the client it created.
C13_BuildsClient ==
    BuildCalled =>
        /\ result.outcome = "returned"
        /\ log[1].ev = "new_client"
        /\ Positions("new_client") = {1}
        /\ (log[1].by = "SSHClient_noauth") <=> ~use_keys
        /\ (log[1].by = "SSHClient") <=> use_keys
        /\ (Positions("load_system_host_keys") # {}) <=> system_host_keys
        /\ (Positions("load_host_keys") # {}) <=> (alt_host_keys /\ AltFileFound)
        /\ (Positions("isfile") # {}) => alt_host_keys
        /\ Positions("set_missing_host_key_policy") = {Len(log) - 1}
        /\ \A i \in Positions("load_system_host_keys") \cup Positions("load_host_keys") :
              i < Len(log) - 1
        /\ log[Len(log)].ev = "return"
        /\ log[Len(log)].by = log[1].by

\* the alternate file is configured but missing, with system keys loaded by
\* a key-authenticating client
C13_Witness ==
    /\ BuildCalled
    /\ use_keys /\ system_host_keys /\ alt_host_keys
    /\ ~AltFileFound
    /\ Positions("load_host_keys") = {}
    /\ Positions("load_system_host_keys") = {2}
    /\ result.outcome = "returned"

----------------------------------------------------------------------------
(* Session Configuration *)

\* the fields of the Session Configuration a call could overwrite
StoredConfiguration ==
    <<real_username, password, auth_timeout, use_keys, system_host_keys,
      alt_host_keys>>

\* C14: no call of login(), session_preparation(), config_mode(),
\* save_config() or cleanup(), whatever its outcome, changes the stored real
\* username, password, auth_timeout or host-key flags.  login() breaks it:
\* it stores 20 in auth_timeout when the field is unset or zero.
C14_ConfigurationImmutable == [][UNCHANGED StoredConfiguration]_vars

----------------------------------------------------------------------------
(* Termination of the login handshake *)

TerminalOutcomes == {"returned", "ValueError_busy", "NetmikoTimeoutException"}

\* a pass of the loop that leaves the handshake running
NonEndingPass == pc = "login" /\ pc' = "login"

\* every pass that does not end the handshake advances the clock by at
\* least one 0.5 s sleep
PassAdvancesClock ==
    [][NonEndingPass => elapsed' >= elapsed + SleepPoll]_vars

\* a login of a session that holds a password string, on an open channel,
\* ends in one of the three terminal outcomes
LoginEnds ==
    (pc = "login" /\ password # None /\ ~chanClosed)
        ~> (pc = "idle" /\ LoginCalled /\ result.outcome \in TerminalOutcomes)

\* C15: login() of a session holding a password string always terminates
\* with one of the three terminal outcomes (returned, busy, timed out),
\* whatever an open channel delivers, because every pass that does not end
\* the handshake advances the elapsed time by at least 0.5 s.  (On a closed
\* channel the first read raises the channel's own error.)
C15_LoginTerminates == PassAdvancesClock /\ LoginEnds

\* the device repeated its username prompt in every pass until the timeout
C15_Witness ==
    /\ LoginCalled /\ pc = "idle"
    /\ result.outcome = "NetmikoTimeoutException"
    /\ Len(reads) = 2
    /\ \A i \in 1..Len(reads) : IsUsernamePrompt(reads[i])
    /\ Len(Writes) = 2
    /\ \A i \in 1..Len(Writes) : Writes[i].by = "username"

----------------------------------------------------------------------------
(* Strictness of the login timeout *)

\* the effective timeout of the running or finished login, in ticks
Deadline == auth_timeout[1] * TicksPerSecond

\* C16: every write login() performs (nudge, username, password) happens
\* while the elapsed time is strictly below the effective timeout.  The code
\* tests the deadline only at the top of a pass, so the write that follows
\* the 0.5 s sleep of the same pass can fall on the deadline.
C16_WritesBeforeDeadline ==
    LoginCalled =>
        \A i \in 1..Len(log) : IsWrite(log[i]) => log[i].at < Deadline

----------------------------------------------------------------------------
(* Order of the prompt checks *)

RECURSIVE Cat(_)
\* the texts of a sequence, joined
Cat(texts) == IF texts = <<>> THEN <<>> ELSE Head(texts) \o Cat(Tail(texts))

\* a step that is one pass of the login loop: it reads the channel
LoopPass == pc = "login" /\ Len(reads') > Len(reads)

\* what the reads of this pass returned, and the events it added
NewReads == SubSeq(reads', Len(reads) + 1, Len(reads'))

NewEvents == SubSeq(log', Len(log) + 1, Len(log'))

\* the buffer as the checks of this pass see it
Checked == output \o Cat(NewReads)

\* this pass wrote to the channel in the named branch
WroteBy(branch) ==
    \E i \in 1..Len(NewEvents) :
        IsWrite(NewEvents[i]) /\ NewEvents[i].by = branch

\* this pass ended the login with the busy error
BusyReported == result'.outcome = "ValueError_busy"

\* C17: in every pass of the login loop the checks are exclusive and
\* ordered: a buffer holding a username prompt gets the username written
\* and neither the password nor the busy error; the password is written
\* only for a buffer with a password prompt and no username prompt; busy is
\* raised only for a buffer with "busy" and neither prompt.
C17_ChecksOrdered ==
    [][LoopPass =>
          /\ IsUsernamePrompt(Checked) =>
                /\ WroteBy("username")
                /\ ~WroteBy("password")
                /\ ~BusyReported
                /\ pc' = "login"
          /\ WroteBy("password") =>
                IsPasswordPrompt(Checked) /\ ~IsUsernamePrompt(Checked)
          /\ BusyReported =>
                /\ IsBusy(Checked)
                /\ ~IsUsernamePrompt(Checked)
                /\ ~IsPasswordPrompt(Checked)]_vars

\* the buffer held a username prompt, a password prompt and "busy" at once,
\* and the pass wrote the username and went on
C17_Witness ==
    /\ LoginCalled /\ pc = "login"
    /\ reads = <<Noise, SplitTail>>
    /\ IsUsernamePrompt(Cat(reads))
    /\ IsPasswordPrompt(Cat(reads))
    /\ IsBusy(Cat(reads))
    /\ Len(Writes) = 1
    /\ Writes[1].by = "username"
    /\ output = <<>>

----------------------------------------------------------------------------
(* The nudge keystroke *)

\* C18: login() writes the bare line terminator only while the device has
\* emitted nothing at all during the attempt; in particular not after the
\* username has been written.  The code tests the buffer, which the username
\* branch clears, so a device that is slow to show its password prompt is
\* sent a bare line terminator between the username and the password.
C18_NudgeOnlyBeforeFirstOutput ==
    [][(LoopPass /\ WroteBy("nudge")) => Cat(reads') = <<>>]_vars

----------------------------------------------------------------------------
(* The output buffer of the login loop *)

\* C19: the buffer of login() is empty at the start, grows in every pass by
\* exactly what the pass read, and is emptied only by the pass that matches
\* a username prompt; so a prompt or "busy" completed by a later read is
\* recognised on the accumulated text, and text that matched nothing stays
\* in the buffer until the login ends.
C19_BufferAccumulates ==
    [][/\ (pc = "idle" /\ pc' = "login") => output' = <<>>
       /\ (pc = "login" /\ ~LoopPass) => output' = output
       /\ LoopPass =>
             /\ output' = IF WroteBy("username") THEN <<>> ELSE Checked
             /\ WroteBy("username") <=> IsUsernamePrompt(Checked)
             /\ (~IsUsernamePrompt(Checked) /\ IsPasswordPrompt(Checked)) =>
                   /\ pc' = "idle"
                   /\ result'.outcome \in {"returned", "AssertionError"}
             /\ (/\ ~IsUsernamePrompt(Checked)
                 /\ ~IsPasswordPrompt(Checked)
                 /\ IsBusy(Checked)) => BusyReported]_vars

\* a username prompt no single read contained was recognised on the text
\* accumulated over two passes, after an empty first read
C19_Witness ==
    /\ LoginCalled /\ pc = "login"
    /\ Len(reads) = 3
    /\ reads[1] = <<>>
    /\ \A i \in 1..Len(reads) : ~IsUsernamePrompt(reads[i])
    /\ IsUsernamePrompt(Cat(reads))
    /\ \E i \in 1..Len(Writes) : Writes[i].by = "username"
    /\ output = <<>>

====
